---- MODULE Spec2Model ----
(***************************************************************************)
(* VoxelGame: the free-look camera (src/src/camera.rs) and the frame       *)
(* driver with its resize-sensitive render targets (src/src/main.rs).      *)
(*                                                                         *)
(* f32 values are modelled in fixed point: lengths, vector and quaternion  *)
(* components and the aspect ratio in units of 1/Scale, angles in          *)
(* micro-radians, time in milliseconds.                                    *)
(***************************************************************************)
EXTENDS Integers, Sequences, FiniteSets, TLC

\* ------------------------------------------------------------------ bounds

\* The monotonic clock stops advancing at MaxClock elapsed steps.
MaxClock == 1
\* Pointer events that would take |yaw| beyond MaxYaw micro-radians are not
\* delivered (yaw is not clamped by the program and grows without bound).
MaxYaw == 400000
\* The specification of the key flags handles at most MaxKeyLog key events.
MaxKeyLog == 3
\* Meshes given to Model::load have at most MaxVertices vertices.
MaxVertices == 2
\* The clock of the specification of update_camera stops at MaxApplyClock steps.
MaxApplyClock == 2

\* One step of the clock, in milliseconds.
StepMs == 500 + 500

\* ------------------------------------------------------- fixed-point reals

Scale == 100 * 100

\* a / b rounded to the nearest integer (b > 0)
RoundDiv(a, b) == (2 * a + b) \div (2 * b)

\* product of two fixed-point numbers
Mul(a, b) == RoundDiv(a * b, Scale)

Abs(a) == IF a < 0 THEN -a ELSE a

RECURSIVE Series(_, _, _, _)
\* the alternating Taylor series with terms t, -t x^2/((n+1)(n+2)), ...
Series(x2, t, n, acc) ==
    IF t = 0 THEN acc
    ELSE LET t2 == -RoundDiv(Mul(t, x2), (n + 1) * (n + 2))
         IN  Series(x2, t2, n + 2, acc + t2)

\* sine and cosine of an angle given in micro-radians
Sin(a) == LET x == RoundDiv(a, 100) IN Series(Mul(x, x), x, 1, x)
Cos(a) == LET x == RoundDiv(a, 100) IN Series(Mul(x, x), Scale, 0, Scale)

RECURSIVE Bisect(_, _, _)
Bisect(n, lo, hi) ==
    IF lo >= hi THEN lo
    ELSE LET mid == (lo + hi + 1) \div 2
         IN  IF mid * mid <= n THEN Bisect(n, mid, hi) ELSE Bisect(n, lo, mid - 1)

\* integer square root
Sqrt(n) == Bisect(n, 0, 46340)

\* ------------------------------------------------------ vectors, rotations

Vec(x, y, z) == [x |-> x, y |-> y, z |-> z]
ZeroVec == Vec(0, 0, 0)
UnitY == Vec(0, Scale, 0)
UnitZ == Vec(0, 0, Scale)

VAdd(a, b) == Vec(a.x + b.x, a.y + b.y, a.z + b.z)
VSub(a, b) == Vec(a.x - b.x, a.y - b.y, a.z - b.z)
VNeg(a) == Vec(-a.x, -a.y, -a.z)
VScale(a, s) == Vec(Mul(a.x, s), Mul(a.y, s), Mul(a.z, s))
Cross(a, b) ==
    Vec(RoundDiv(a.y * b.z - a.z * b.y, Scale),
        RoundDiv(a.z * b.x - a.x * b.z, Scale),
        RoundDiv(a.x * b.y - a.y * b.x, Scale))

\* v * k / d
VTimes(v, k, d) == Vec(RoundDiv(v.x * k, d), RoundDiv(v.y * k, d), RoundDiv(v.z * k, d))

\* |v| in fixed point
Magnitude(v) == Sqrt(v.x * v.x + v.y * v.y + v.z * v.z)

\* v / |v|; the zero vector has no direction (NaN in f32) and is returned as is:
\* update_camera normalizes movement only when its magnitude is positive, and
\* the clamped pitch keeps the horizontal part of forward away from zero.
Normalize(v) == IF Magnitude(v) = 0 THEN v ELSE VTimes(v, Scale, Magnitude(v))

Quat(s, v) == [s |-> s, v |-> v]

\* Quaternion::from_angle_y / from_angle_x: (cos(a/2), axis * sin(a/2))
FromAngleY(a) == Quat(Cos(a \div 2), Vec(0, Sin(a \div 2), 0))
FromAngleX(a) == Quat(Cos(a \div 2), Vec(Sin(a \div 2), 0, 0))

Conjugate(q) == Quat(q.s, VNeg(q.v))

\* the sum of two quaternions, which is not a rotation
QAdd(a, b) == Quat(a.s + b.s, VAdd(a.v, b.v))

\* Hamilton product
QMul(a, b) ==
    Quat(RoundDiv(a.s * b.s - a.v.x * b.v.x - a.v.y * b.v.y - a.v.z * b.v.z, Scale),
         Vec(RoundDiv(a.s * b.v.x + a.v.x * b.s + a.v.y * b.v.z - a.v.z * b.v.y, Scale),
             RoundDiv(a.s * b.v.y + a.v.y * b.s + a.v.z * b.v.x - a.v.x * b.v.z, Scale),
             RoundDiv(a.s * b.v.z + a.v.z * b.s + a.v.x * b.v.y - a.v.y * b.v.x, Scale)))

\* the rotation of a vector by a quaternion
\* (tmp = v x vec + vec * s; v x tmp * 2 + vec)
Rotate(q, vec) ==
    VAdd(VTimes(Cross(q.v, VAdd(Cross(q.v, vec), VScale(vec, q.s))), 2, 1), vec)

\* ------------------------------------------------------------------ inputs

\* window sizes the window system reports (width, height)
Sizes == {<<800, 600>>, <<1920, 1080>>, <<400, 300>>}
\* the inner size of the window created by App::resumed
InitSizes == {<<800, 600>>}
\* sizes of a minimized window
ZeroSizes == {<<0, 600>>, <<800, 0>>, <<0, 0>>}

\* pointer motion since the last re-centering, in pixels: the handler of
\* CursorMoved warps the pointer back to the viewport center, so the next
\* reported position is the center plus the user's motion
PointerOffsets == {<<0, 0>>, <<400, 1400>>, <<-400, -1400>>}

\* winit::keyboard::KeyCode: the keys the program names, and one it does not
KeyCodes == {"KeyW", "ArrowUp", "KeyA", "ArrowLeft", "KeyS", "ArrowDown", "KeyD",
             "ArrowRight", "Space", "ShiftLeft", "Escape", "F11", "KeyQ"}
\* the keys pressed and released in the driver specification: a movement key
\* and its alias, a key of another axis, and the keys the driver reads
DriverKeyCodes == {"KeyW", "ArrowUp", "Space", "Escape", "F11", "KeyQ"}
ElementStates == {"Pressed", "Released"}

\* key events; `repeat` is read for F11 only
KeyEvents ==
    [type : {"KeyboardInput"}, physical_key : DriverKeyCodes, state : ElementStates,
     repeat : {FALSE}]
    \cup [type : {"KeyboardInput"}, physical_key : {"F11"}, state : {"Pressed"},
          repeat : {TRUE}]
OtherEvents == [type : {"Focused"}]

\* wgpu::SurfaceError
SurfaceErrors == {"Lost", "Outdated", "OutOfMemory", "Other", "Timeout"}

\* Option: None is the empty sequence, Some(x) is <<x>>
None == << >>
Some(x) == << x >>
IsSome(o) == Len(o) = 1
Unwrap(o) == o[1]

\* App::state before the first resume
NoState == "None"

\* ------------------------------------------------------------------ camera

Speed == 5
Sensitivity == 1000
PitchLimit == 1308997
Fovy == 45
Znear == 1000
Zfar == 1000000

\* width as f32 / height as f32
Aspect(width, height) == RoundDiv(width * Scale, height)

\* Camera::new
CameraNew(aspect) ==
    [eye |-> Vec(0, Scale, 2 * Scale), rotation |-> FromAngleY(0), aspect |-> aspect,
     fovy |-> Fovy, znear |-> Znear, zfar |-> Zfar]

\* Camera::update_aspect
UpdateAspect(camera, aspect) == [camera EXCEPT !.aspect = aspect]

\* Camera::build_view_projection_matrix: OPENGL_TO_WGPU_MATRIX * proj * view, kept
\* as its factors: the rotation and translation of the view matrix and the
\* parameters of the perspective matrix
BuildViewProjectionMatrix(camera) ==
    [view |-> [rotation |-> camera.rotation, translation |-> VNeg(camera.eye)],
     proj |-> [fovy |-> camera.fovy, aspect |-> camera.aspect,
               znear |-> camera.znear, zfar |-> camera.zfar]]

\* CameraUniform::update_view_proj
UpdateViewProj(camera) == BuildViewProjectionMatrix(camera)

\* CameraController::new
ControllerNew(speed) ==
    [speed |-> speed, yaw |-> 0, pitch |-> 0,
     is_forward_pressed |-> FALSE, is_backward_pressed |-> FALSE,
     is_left_pressed |-> FALSE, is_right_pressed |-> FALSE,
     is_up_pressed |-> FALSE, is_down_pressed |-> FALSE]

\* a clamp that applies the upper limit only
ClampUpper(x, lo, hi) == IF x > hi THEN hi ELSE x

\* f32::clamp
Clamp(x, lo, hi) == IF x < lo THEN lo ELSE IF x > hi THEN hi ELSE x

\* a pointer arm that measures the position from the corner of the viewport
HandleCursorMovedFromCorner(cc, position, size) ==
    [cc EXCEPT !.yaw = cc.yaw + position[1] * Sensitivity,
               !.pitch = Clamp(cc.pitch + position[2] * Sensitivity, -PitchLimit, PitchLimit)]

\* the CursorMoved arm of CameraController::handle_event; position and size in
\* pixels, delta = position - size / 2 kept in half pixels
HandleCursorMoved(cc, position, size) ==
    LET dx2 == 2 * position[1] - size[1]
        dy2 == 2 * position[2] - size[2]
        yaw == cc.yaw + dx2 * (Sensitivity \div 2)
        pitch == cc.pitch + dy2 * (Sensitivity \div 2)
    IN  [cc EXCEPT !.yaw = yaw, !.pitch = Clamp(pitch, -PitchLimit, PitchLimit)]

\* a key arm that sets the flag whatever the state of the key
HandleKeySetsFlag(cc, keycode, is_pressed) ==
    CASE keycode \in {"KeyW", "ArrowUp"}    -> [cc EXCEPT !.is_forward_pressed = TRUE]
      [] keycode \in {"KeyA", "ArrowLeft"}  -> [cc EXCEPT !.is_left_pressed = TRUE]
      [] keycode \in {"KeyS", "ArrowDown"}  -> [cc EXCEPT !.is_backward_pressed = TRUE]
      [] keycode \in {"KeyD", "ArrowRight"} -> [cc EXCEPT !.is_right_pressed = TRUE]
      [] keycode = "Space"                  -> [cc EXCEPT !.is_up_pressed = TRUE]
      [] keycode = "ShiftLeft"              -> [cc EXCEPT !.is_down_pressed = TRUE]
      [] OTHER                              -> cc

\* a key arm whose flag stays set when a key mapped to it is released
HandleKeyHoldsOnRelease(cc, keycode, is_pressed) ==
    CASE keycode \in {"KeyW", "ArrowUp"}    ->
            [cc EXCEPT !.is_forward_pressed = cc.is_forward_pressed \/ is_pressed]
      [] keycode \in {"KeyA", "ArrowLeft"}  ->
            [cc EXCEPT !.is_left_pressed = cc.is_left_pressed \/ is_pressed]
      [] keycode \in {"KeyS", "ArrowDown"}  ->
            [cc EXCEPT !.is_backward_pressed = cc.is_backward_pressed \/ is_pressed]
      [] keycode \in {"KeyD", "ArrowRight"} ->
            [cc EXCEPT !.is_right_pressed = cc.is_right_pressed \/ is_pressed]
      [] keycode = "Space"                  ->
            [cc EXCEPT !.is_up_pressed = cc.is_up_pressed \/ is_pressed]
      [] keycode = "ShiftLeft"              ->
            [cc EXCEPT !.is_down_pressed = cc.is_down_pressed \/ is_pressed]
      [] OTHER                              -> cc

\* the KeyboardInput arm of CameraController::handle_event
HandleKey(cc, keycode, is_pressed) ==
    CASE keycode \in {"KeyW", "ArrowUp"}    -> [cc EXCEPT !.is_forward_pressed = is_pressed]
      [] keycode \in {"KeyA", "ArrowLeft"}  -> [cc EXCEPT !.is_left_pressed = is_pressed]
      [] keycode \in {"KeyS", "ArrowDown"}  -> [cc EXCEPT !.is_backward_pressed = is_pressed]
      [] keycode \in {"KeyD", "ArrowRight"} -> [cc EXCEPT !.is_right_pressed = is_pressed]
      [] keycode = "Space"                  -> [cc EXCEPT !.is_up_pressed = is_pressed]
      [] keycode = "ShiftLeft"              -> [cc EXCEPT !.is_down_pressed = is_pressed]
      [] OTHER                              -> cc

MovementKeys == {"KeyW", "ArrowUp", "KeyA", "ArrowLeft", "KeyS", "ArrowDown",
                 "KeyD", "ArrowRight", "Space", "ShiftLeft"}

\* CameraController::handle_event: the controller after the event and the
\* value returned
HandleEvent(cc, event, size) ==
    CASE event.type = "KeyboardInput" ->
            [controller |-> HandleKey(cc, event.physical_key, event.state = "Pressed"),
             consumed |-> event.physical_key \in MovementKeys]
      [] event.type = "CursorMoved" ->
            [controller |-> HandleCursorMoved(cc, event.position, size), consumed |-> TRUE]
      [] OTHER -> [controller |-> cc, consumed |-> FALSE]

\* a projection that keeps the vertical component
HorizontalKeepY(v) == v

\* the movement basis of update_camera: forward is the camera's +Z projected
\* onto the horizontal plane, right is forward x up
Horizontal(v) == Vec(v.x, 0, v.z)
Forward(camera) == Normalize(Horizontal(Rotate(Conjugate(camera.rotation), UnitZ)))
Right(camera) == Normalize(Cross(Forward(camera), UnitY))

\* `movement = v` in place of `movement += v`
AddIfAssign(pressed, movement, v) == IF pressed THEN v ELSE movement

\* `movement -= v` outside its `if`
SubAlways(pressed, movement, v) == VSub(movement, v)

\* `if pressed { movement += v }` and `if pressed { movement -= v }`
AddIf(pressed, movement, v) == IF pressed THEN VAdd(movement, v) ELSE movement
SubIf(pressed, movement, v) == IF pressed THEN VSub(movement, v) ELSE movement

\* the sum of the directions of the flags that are set, in the basis
\* (forward, right, up)
MovementIn(cc, forward, right, up) ==
    SubIf(cc.is_down_pressed,
      AddIf(cc.is_up_pressed,
        SubIf(cc.is_right_pressed,
          AddIf(cc.is_left_pressed,
            AddIf(cc.is_backward_pressed,
              SubIf(cc.is_forward_pressed, ZeroVec, forward),
              forward),
            right),
          right),
        up),
      up)

Movement(cc, camera) == MovementIn(cc, Forward(camera), Right(camera), UnitY)

\* a displacement of speed for each update, however long the frame took
DisplacementPerFrame(movement, speed, dt) == VTimes(Normalize(movement), speed, 1)

\* movement * speed * delta_time, without the normalization
DisplacementRaw(movement, speed, dt) == VTimes(movement, speed * dt, 1000)

\* movement.normalize() * speed * delta_time, delta_time in milliseconds
Displacement(movement, speed, dt) == VTimes(Normalize(movement), speed * dt, 1000)

\* `if movement.magnitude() > 0.0 { camera.eye += ... }`
Moved(eye, movement, speed, dt) ==
    IF Magnitude(movement) > 0 THEN VAdd(eye, Displacement(movement, speed, dt)) ELSE eye

\* an update that turns the camera further from the orientation it has
UpdateCameraTurnsFurther(cc, camera, dt) ==
    [camera EXCEPT !.eye = Moved(camera.eye, Movement(cc, camera), cc.speed, dt),
                   !.rotation = QMul(QMul(FromAngleX(cc.pitch), FromAngleY(cc.yaw)),
                                     camera.rotation)]

\* CameraController::update_camera
UpdateCamera(cc, camera, dt) ==
    [camera EXCEPT !.eye = Moved(camera.eye, Movement(cc, camera), cc.speed, dt),
                   !.rotation = QMul(FromAngleX(cc.pitch), FromAngleY(cc.yaw))]

\* ------------------------------------------------------- the render state

\* a handle no live texture of the same label has
FreshId(live) == CHOOSE i \in 1..(Cardinality(live) + 1) : i \notin live

\* texture::Texture::create_gbuf_texture: a new texture of the size of the
\* surface configuration; `live` are the handles of the live textures created
\* with the same label
CreateGbufTexture(config, label, live) ==
    [id |-> <<label, FreshId(live)>>, width |-> config[1], height |-> config[2]]

\* the handles of the textures created with `label` that a State keeps alive:
\* its target of that label and the view of it the G-buffer bind group holds
Live(st, label) ==
    CASE label = "depth_texture" -> {st.depth_texture.id[2]}
      [] label = "normal_texture" -> {st.normal_texture.id[2], st.gbuf_bind_group.normal[2]}
      [] label = "color_texture" -> {st.color_texture.id[2], st.gbuf_bind_group.color[2]}

\* State::new for a window of inner size `size`
StateNew(size) ==
    [size |-> size, config |-> size, surface |-> <<0, 0>>,
     depth_texture |-> CreateGbufTexture(size, "depth_texture", {}),
     normal_texture |-> CreateGbufTexture(size, "normal_texture", {}),
     color_texture |-> CreateGbufTexture(size, "color_texture", {}),
     gbuf_bind_group |-> [normal |-> CreateGbufTexture(size, "normal_texture", {}).id,
                          color |-> CreateGbufTexture(size, "color_texture", {}).id],
     camera |-> CameraNew(Aspect(size[1], size[2])),
     camera_uniform |-> UpdateViewProj(CameraNew(Aspect(size[1], size[2]))),
     camera_buffer |-> UpdateViewProj(CameraNew(Aspect(size[1], size[2]))),
     camera_controller |-> ControllerNew(Speed)]

\* State::handle_event
StateHandleEvent(st, event) ==
    [st EXCEPT !.camera_controller = HandleEvent(st.camera_controller, event, st.size).controller]

\* camera_uniform.update_view_proj(&camera); queue.write_buffer(&camera_buffer, ...)
WriteCamera(st, camera) ==
    [st EXCEPT !.camera = camera, !.camera_uniform = UpdateViewProj(camera),
               !.camera_buffer = UpdateViewProj(camera)]

\* a resize that creates the color texture before it updates the configuration
ResizeStaleColor(st, new_size) ==
    IF new_size[1] > 0 /\ new_size[2] > 0
    THEN [WriteCamera(st, UpdateAspect(st.camera, Aspect(new_size[1], new_size[2])))
            EXCEPT
                !.size = new_size, !.config = new_size, !.surface = new_size,
                !.depth_texture =
                    CreateGbufTexture(new_size, "depth_texture", Live(st, "depth_texture")),
                !.normal_texture =
                    CreateGbufTexture(new_size, "normal_texture", Live(st, "normal_texture")),
                !.color_texture =
                    CreateGbufTexture(st.config, "color_texture", Live(st, "color_texture"))]
    ELSE st

\* a resize that tests the height only
ResizeHeightOnly(st, new_size) ==
    IF new_size[2] > 0
    THEN [WriteCamera(st, UpdateAspect(st.camera, Aspect(new_size[1], new_size[2])))
            EXCEPT
                !.size = new_size, !.config = new_size, !.surface = new_size,
                !.depth_texture =
                    CreateGbufTexture(new_size, "depth_texture", Live(st, "depth_texture")),
                !.normal_texture =
                    CreateGbufTexture(new_size, "normal_texture", Live(st, "normal_texture")),
                !.color_texture =
                    CreateGbufTexture(new_size, "color_texture", Live(st, "color_texture"))]
    ELSE st

\* a resize that does not call Camera::update_aspect
ResizeKeepAspect(st, new_size) ==
    IF new_size[1] > 0 /\ new_size[2] > 0
    THEN [st EXCEPT
                !.size = new_size, !.config = new_size, !.surface = new_size,
                !.depth_texture =
                    CreateGbufTexture(new_size, "depth_texture", Live(st, "depth_texture")),
                !.normal_texture =
                    CreateGbufTexture(new_size, "normal_texture", Live(st, "normal_texture")),
                !.color_texture =
                    CreateGbufTexture(new_size, "color_texture", Live(st, "color_texture"))]
    ELSE st

\* a resize that builds a new camera for the new aspect ratio
ResizeNewCamera(st, new_size) ==
    IF new_size[1] > 0 /\ new_size[2] > 0
    THEN [WriteCamera(st, CameraNew(Aspect(new_size[1], new_size[2])))
            EXCEPT
                !.size = new_size, !.config = new_size, !.surface = new_size,
                !.depth_texture =
                    CreateGbufTexture(new_size, "depth_texture", Live(st, "depth_texture")),
                !.normal_texture =
                    CreateGbufTexture(new_size, "normal_texture", Live(st, "normal_texture")),
                !.color_texture =
                    CreateGbufTexture(new_size, "color_texture", Live(st, "color_texture"))]
    ELSE st

\* State::resize
Resize(st, new_size) ==
    IF new_size[1] > 0 /\ new_size[2] > 0
    THEN [WriteCamera(st, UpdateAspect(st.camera, Aspect(new_size[1], new_size[2])))
            EXCEPT
                !.size = new_size, !.config = new_size, !.surface = new_size,
                !.depth_texture =
                    CreateGbufTexture(new_size, "depth_texture", Live(st, "depth_texture")),
                !.normal_texture =
                    CreateGbufTexture(new_size, "normal_texture", Live(st, "normal_texture")),
                !.color_texture =
                    CreateGbufTexture(new_size, "color_texture", Live(st, "color_texture"))]
    ELSE st

\* the GPU calls of State::resize
ResizeOps(new_size) ==
    IF new_size[1] > 0 /\ new_size[2] > 0
    THEN << <<"configure">>, <<"write_buffer">>, <<"create_texture", "depth_texture">>,
            <<"create_texture", "normal_texture">>, <<"create_texture", "color_texture">> >>
    ELSE << >>

\* an update that moves the camera and does not write the uniform buffer
UpdateNoWrite(st, delta_time) ==
    [st EXCEPT !.camera = UpdateCamera(st.camera_controller, st.camera, delta_time)]

\* State::update
Update(st, delta_time) ==
    WriteCamera(st, UpdateCamera(st.camera_controller, st.camera, delta_time))

UpdateOps == << <<"update_camera">>, <<"write_buffer">> >>

\* State::render on an acquired frame: one render pass through the G-buffer
\* pipeline, which draws the model into the frame's view with the depth texture
\* as its depth attachment; then submit and present
RenderOps ==
    << <<"render_pass", "gbuf_render_pipeline", "frame", "depth_texture">>,
       <<"submit">>, <<"present">> >>

\* ------------------------------------------------------------ the driver

VARIABLES
    status,            \* "Uninitialized", "Running", "Exiting" or "Panicked"
    state,             \* App::state: None or the State
    last_draw,         \* App::last_draw: None or the clock at the last tick
    now,               \* the monotonic clock, in steps of StepMs
    redraw_requested,  \* a redraw request is pending at the window
    trace              \* the last handler: its event, then its GPU and window calls in order

vars == << status, state, last_draw, now, redraw_requested, trace >>

Init ==
    /\ status = "Uninitialized"
    /\ state = NoState
    /\ last_draw = None
    /\ now = 0
    /\ redraw_requested = FALSE
    /\ trace = << >>

\* App::resumed
Resumed ==
    /\ status = "Uninitialized"
    /\ \E size \in InitSizes : state' = StateNew(size)
    /\ status' = "Running"
    /\ redraw_requested' = TRUE
    /\ trace' = << <<"resumed">>, <<"create_window">>, <<"request_redraw">> >>
    /\ UNCHANGED << last_draw, now >>

\* the ways Model::load fails: it returns Err (the file cannot be read or
\* parsed), or the file holds no model and `&models[0]` panics
LoadFailures == {"Err", "NoModels"}

\* a start-up that keeps the State when the mesh cannot be loaded
ResumedWithoutModel(failure) ==
    /\ status = "Uninitialized"
    /\ \E size \in InitSizes : state' = StateNew(size)
    /\ status' = "Running"
    /\ redraw_requested' = TRUE
    /\ trace' = << <<"resumed">>, <<"create_window">>, <<"Model::load", failure>>,
                   <<"request_redraw">> >>
    /\ UNCHANGED << last_draw, now >>

\* App::resumed when Model::load fails: State::new panics at
\* `.expect("Failed to load model")` (or inside Model::load), before
\* `self.state = Some(state)`; the panic unwinds out of run_app and main
ResumedLoadFails(failure) ==
    /\ status = "Uninitialized"
    /\ status' = "Panicked"
    /\ trace' = << <<"resumed">>, <<"create_window">>, <<"Model::load", failure>>,
                   <<"panic">> >>
    /\ UNCHANGED << state, last_draw, now, redraw_requested >>

\* time passes between two events
Tick ==
    /\ status = "Running"
    /\ now < MaxClock
    /\ now' = now + 1
    /\ UNCHANGED << status, state, last_draw, redraw_requested, trace >>

\* event_loop.exit(): the handler returns, run_app ends the loop and main drops
\* the App with its State
Exit ==
    /\ status' = "Exiting"
    /\ state' = NoState
    /\ last_draw' = None
    /\ redraw_requested' = FALSE

\* WindowEvent::CloseRequested
CloseRequested ==
    /\ status = "Running"
    /\ Exit
    /\ trace' = << <<"CloseRequested">>, <<"exit">> >>
    /\ UNCHANGED now

\* a delta time measured from the start of the clock on the first tick
DeltaTimeSinceStart ==
    IF IsSome(last_draw) THEN (now - Unwrap(last_draw)) * StepMs ELSE now * StepMs

\* delta_time of the RedrawRequested arm, in milliseconds
DeltaTime == IF IsSome(last_draw) THEN (now - Unwrap(last_draw)) * StepMs ELSE 0

\* the arm of `match self.last_draw` the tick takes
LastDrawArm == IF IsSome(last_draw) THEN "Some(last)" ELSE "None"

\* the RedrawRequested arm up to the result of State::render
RedrawOps(result) ==
    << <<"RedrawRequested", result>>, <<"request_redraw">>, <<"delta_time", LastDrawArm>> >>
        \o UpdateOps

\* WindowEvent::RedrawRequested, State::render returning Ok
RedrawOk ==
    /\ status = "Running"
    /\ redraw_requested
    /\ state' = Update(state, DeltaTime)
    /\ last_draw' = Some(now)
    /\ redraw_requested' = TRUE
    /\ trace' = RedrawOps("Ok") \o RenderOps
    /\ UNCHANGED << status, now >>

\* the arm of `match state.render()` that Err(err) takes
Arm(err) ==
    CASE err \in {"Lost", "Outdated"} -> "Err(Lost | Outdated)"
      [] err \in {"OutOfMemory", "Other"} -> "Err(OutOfMemory | Other)"
      [] err = "Timeout" -> "Err(Timeout)"

\* a lost surface handled by dropping the frame
RedrawLostDropsFrame(err) ==
    /\ status = "Running"
    /\ redraw_requested
    /\ state' = Update(state, DeltaTime)
    /\ trace' = RedrawOps(Arm(err))
    /\ last_draw' = Some(now)
    /\ redraw_requested' = TRUE
    /\ UNCHANGED << status, now >>

\* WindowEvent::RedrawRequested, State::render returning Err(Lost) or Err(Outdated)
RedrawLost(err) ==
    /\ status = "Running"
    /\ redraw_requested
    /\ state' = Resize(Update(state, DeltaTime), state.size)
    /\ trace' = RedrawOps(Arm(err)) \o ResizeOps(state.size)
    /\ last_draw' = Some(now)
    /\ redraw_requested' = TRUE
    /\ UNCHANGED << status, now >>

\* a fatal surface error that is logged and nothing else
RedrawFatalContinues(err) ==
    /\ status = "Running"
    /\ redraw_requested
    /\ state' = Update(state, DeltaTime)
    /\ trace' = RedrawOps(Arm(err))
    /\ last_draw' = Some(now)
    /\ redraw_requested' = TRUE
    /\ UNCHANGED << status, now >>

\* WindowEvent::RedrawRequested, State::render returning Err(OutOfMemory) or Err(Other)
RedrawFatal(err) ==
    /\ status = "Running"
    /\ redraw_requested
    /\ Exit
    /\ trace' = RedrawOps(Arm(err)) \o << <<"exit">> >>
    /\ UNCHANGED now

\* a timeout handled as a lost surface is
RedrawTimeoutRebuilds ==
    /\ status = "Running"
    /\ redraw_requested
    /\ state' = Resize(Update(state, DeltaTime), state.size)
    /\ trace' = RedrawOps(Arm("Timeout")) \o ResizeOps(state.size)
    /\ last_draw' = Some(now)
    /\ redraw_requested' = TRUE
    /\ UNCHANGED << status, now >>

\* a timeout after which the handler has not asked for another redraw
RedrawTimeoutStalls ==
    /\ status = "Running"
    /\ redraw_requested
    /\ state' = Update(state, DeltaTime)
    /\ trace' = << <<"RedrawRequested", Arm("Timeout")>>, <<"delta_time", LastDrawArm>> >>
                    \o UpdateOps
    /\ last_draw' = Some(now)
    /\ redraw_requested' = FALSE
    /\ UNCHANGED << status, now >>

\* WindowEvent::RedrawRequested, State::render returning Err(Timeout)
RedrawTimeout ==
    /\ status = "Running"
    /\ redraw_requested
    /\ state' = Update(state, DeltaTime)
    /\ trace' = RedrawOps(Arm("Timeout"))
    /\ last_draw' = Some(now)
    /\ redraw_requested' = TRUE
    /\ UNCHANGED << status, now >>

\* WindowEvent::Resized
Resized(size) ==
    /\ status = "Running"
    /\ state' = Resize(state, size)
    /\ trace' = << <<"Resized">> >> \o ResizeOps(size)
    /\ UNCHANGED << status, last_draw, now, redraw_requested >>

\* a keyboard handler in which KeyQ exits as Escape does
KeyboardInputQuitsOnQ(event) ==
    /\ status = "Running"
    /\ CASE event.physical_key \in {"Escape", "KeyQ"} ->
              /\ Exit
              /\ trace' = << <<"KeyboardInput", event.physical_key>>, <<"exit">> >>
         [] event.physical_key = "F11" /\ event.state = "Pressed" /\ ~event.repeat ->
              /\ trace' = << <<"KeyboardInput", "F11">>, <<"set_fullscreen">>,
                             <<"set_cursor_grab">> >>
              /\ UNCHANGED << status, state, last_draw, redraw_requested >>
         [] OTHER ->
              /\ state' = StateHandleEvent(state, event)
              /\ trace' = << <<"_">>, <<"handle_event">> >>
              /\ UNCHANGED << status, last_draw, redraw_requested >>
    /\ UNCHANGED now

\* WindowEvent::KeyboardInput: Escape exits, F11 pressed (not a repeat) toggles
\* fullscreen at the window, every other key event goes to State::handle_event
KeyboardInput(event) ==
    /\ status = "Running"
    /\ CASE event.physical_key = "Escape" ->
              /\ Exit
              /\ trace' = << <<"KeyboardInput", "Escape">>, <<"exit">> >>
         [] event.physical_key = "F11" /\ event.state = "Pressed" /\ ~event.repeat ->
              /\ trace' = << <<"KeyboardInput", "F11">>, <<"set_fullscreen">>,
                             <<"set_cursor_grab">> >>
              /\ UNCHANGED << status, state, last_draw, redraw_requested >>
         [] OTHER ->
              /\ state' = StateHandleEvent(state, event)
              /\ trace' = << <<"_">>, <<"handle_event">> >>
              /\ UNCHANGED << status, last_draw, redraw_requested >>
    /\ UNCHANGED now

\* WindowEvent::CursorMoved: the pointer is warped back to the center and the
\* event goes to State::handle_event
CursorMoved(offset) ==
    /\ status = "Running"
    /\ LET position == <<state.size[1] \div 2 + offset[1], state.size[2] \div 2 + offset[2]>>
           event == [type |-> "CursorMoved", position |-> position]
       IN  /\ state' = StateHandleEvent(state, event)
           /\ Abs(state'.camera_controller.yaw) <= MaxYaw
           /\ trace' = << <<"CursorMoved">>, <<"set_cursor_position">>, <<"handle_event">> >>
    /\ UNCHANGED << status, last_draw, now, redraw_requested >>

\* any other window event: State::handle_event ignores it
OtherEvent(event) ==
    /\ status = "Running"
    /\ state' = StateHandleEvent(state, event)
    /\ trace' = << <<"_">>, <<"handle_event">> >>
    /\ UNCHANGED << status, last_draw, now, redraw_requested >>

Next ==
    \/ Resumed
    \/ \E failure \in LoadFailures : ResumedLoadFails(failure)
    \/ Tick
    \/ CloseRequested
    \/ RedrawOk
    \/ \E err \in {"Lost", "Outdated"} : RedrawLost(err)
    \/ \E err \in {"OutOfMemory", "Other"} : RedrawFatal(err)
    \/ RedrawTimeout
    \/ \E size \in Sizes \cup ZeroSizes : Resized(size)
    \/ \E event \in KeyEvents : KeyboardInput(event)
    \/ \E offset \in PointerOffsets : CursorMoved(offset)
    \/ \E event \in OtherEvents : OtherEvent(event)

Spec == Init /\ [][Next]_vars

\* the RedrawRequested arm, whatever State::render returns: the driver keeps
\* running, or exits on a fatal error
RedrawRequested ==
    \/ /\ status' = "Exiting"
       /\ \E err \in {"OutOfMemory", "Other"} : RedrawFatal(err)
    \/ /\ status' = "Running"
       /\ \/ RedrawOk
          \/ \E err \in {"Lost", "Outdated"} : RedrawLost(err)
          \/ RedrawTimeout

\* the driver under an event loop that delivers the redraws the window was
\* asked for: a requested redraw is not withheld forever
\* the events of the driver under that event loop: the redraws, the passing
\* of time, a resize (accepted or refused), a movement key, Escape and the
\* close button
LiveSizes == {<<1920, 1080>>, <<0, 0>>}
LiveKeyEvents == {event \in KeyEvents : event.physical_key \in {"KeyW", "Escape"}}

NextLive ==
    \/ Resumed
    \/ Tick
    \/ CloseRequested
    \/ RedrawRequested
    \/ \E size \in LiveSizes : Resized(size)
    \/ \E event \in LiveKeyEvents : KeyboardInput(event)

SpecLive ==
    Init /\ [][NextLive]_vars /\ WF_<<status, last_draw, trace>>(RedrawRequested)

\* ------------------------------------- the driver, activated more than once

\* App::resumed called again while a State exists (the window system suspended
\* and resumed the application): it creates another window and replaces
\* App::state and App::window; App::last_draw is left as it is
Reactivated ==
    /\ status = "Running"
    /\ \E size \in InitSizes : state' = StateNew(size)
    /\ redraw_requested' = TRUE
    /\ trace' = << <<"resumed">>, <<"create_window">>, <<"request_redraw">> >>
    /\ UNCHANGED << status, last_draw, now >>

NextReactivated == Next \/ Reactivated

SpecReactivated == Init /\ [][NextReactivated]_vars

\* ------------------------------------------- update_camera on its own inputs

\* yaw and pitch of the controller, and of the rotation the camera was left
\* with by the previous update
ApplyYaws == {-400000, 0, 700000}
ApplyPitches == {-PitchLimit, 0, 300000}
ApplyRotations ==
    {QMul(FromAngleX(p), FromAngleY(y)) : y \in {0, 700000}, p \in {0, -PitchLimit}}

\* every combination of the six movement flags
ApplyControllers ==
    [speed : {Speed}, yaw : ApplyYaws, pitch : ApplyPitches,
     is_forward_pressed : BOOLEAN, is_backward_pressed : BOOLEAN,
     is_left_pressed : BOOLEAN, is_right_pressed : BOOLEAN,
     is_up_pressed : BOOLEAN, is_down_pressed : BOOLEAN]

\* a running State with the given controller and camera rotation
StateWith(cc, rotation) ==
    [WriteCamera(StateNew(<<800, 600>>),
                 [CameraNew(Aspect(800, 600)) EXCEPT !.rotation = rotation])
        EXCEPT !.camera_controller = cc]

InitApply ==
    /\ status = "Running"
    /\ \E cc \in ApplyControllers, rotation \in ApplyRotations :
            state = StateWith(cc, rotation)
    /\ last_draw = Some(0)
    /\ now = 0
    /\ redraw_requested = TRUE
    /\ trace = << >>

\* time passes
ApplyTick ==
    /\ now < MaxApplyClock
    /\ now' = now + 1
    /\ UNCHANGED << status, state, last_draw, redraw_requested, trace >>

\* State::update with the time elapsed since the last update
ApplyUpdate ==
    /\ state' = Update(state, DeltaTime)
    /\ last_draw' = Some(now)
    /\ trace' = << <<"update", IF DeltaTime > 0 THEN "dt > 0" ELSE "dt = 0">> >> \o UpdateOps
    /\ UNCHANGED << status, now, redraw_requested >>

NextApply == ApplyTick \/ ApplyUpdate

SpecApply == InitApply /\ [][NextApply]_vars

\* ------------------------------------------- handle_event on its own inputs

\* key events of every key code, pressed and released, repeated or not
AllKeyEvents ==
    [type : {"KeyboardInput"}, physical_key : KeyCodes, state : ElementStates,
     repeat : BOOLEAN]

\* pointer events in a window of 800x600
CursorEvents ==
    [type : {"CursorMoved"},
     position : {<<400 + offset[1], 300 + offset[2]>> : offset \in PointerOffsets}]

HandledEvents == AllKeyEvents \cup CursorEvents \cup OtherEvents

\* controllers with every combination of the six flags, at rest and at the
\* pitch limit
HandleControllers ==
    [speed : {Speed}, yaw : {0}, pitch : {0, PitchLimit},
     is_forward_pressed : BOOLEAN, is_backward_pressed : BOOLEAN,
     is_left_pressed : BOOLEAN, is_right_pressed : BOOLEAN,
     is_up_pressed : BOOLEAN, is_down_pressed : BOOLEAN]

InitHandle ==
    /\ status = "Running"
    /\ \E cc \in HandleControllers : state = StateWith(cc, FromAngleY(0))
    /\ last_draw = None
    /\ now = 0
    /\ redraw_requested = TRUE
    /\ trace = << >>

\* the text of a bool
Bool(b) == IF b THEN "true" ELSE "false"

\* State::handle_event, with the value CameraController::handle_event returns
Handle(event) ==
    /\ state' = StateHandleEvent(state, event)
    /\ Abs(state'.camera_controller.yaw) <= MaxYaw
    /\ trace' = << <<"handle_event",
                     Bool(HandleEvent(state.camera_controller, event, state.size).consumed)>> >>
    /\ UNCHANGED << status, last_draw, now, redraw_requested >>

NextHandle == \E event \in HandledEvents : Handle(event)

SpecHandle == InitHandle /\ [][NextHandle]_vars

\* ------------------------------------ the key flags over a log of key events

\* presses and releases of the ten movement keys and of a key that is not mapped
KeyLogEvents ==
    [type : {"KeyboardInput"}, physical_key : MovementKeys \cup {"KeyQ"},
     state : ElementStates, repeat : {FALSE}]

\* a running State with the controller CameraController::new makes, and no key
\* event so far
InitKeys ==
    /\ status = "Running"
    /\ state = StateWith(ControllerNew(Speed), FromAngleY(0))
    /\ last_draw = None
    /\ now = 0
    /\ redraw_requested = TRUE
    /\ trace = << >>

\* State::handle_event for a key event, which is added to the log
KeyLogged(event) ==
    /\ Len(trace) < MaxKeyLog
    /\ state' = StateHandleEvent(state, event)
    /\ trace' = Append(trace, <<"KeyboardInput", event.physical_key, event.state>>)
    /\ UNCHANGED << status, last_draw, now, redraw_requested >>

NextKeys == \E event \in KeyLogEvents : KeyLogged(event)

SpecKeys == InitKeys /\ [][NextKeys]_vars

\* --------------------------------------------- Model::load on its own inputs

\* components i*3, i*3 + 1, i*3 + 2 of a flat array (i from 0)
Triple(flat, i) == << flat[i * 3 + 1], flat[i * 3 + 2], flat[i * 3 + 3] >>

ZeroTriple == << 0, 0, 0 >>

\* the ModelVertex built for vertex i of a mesh
ModelVertex(mesh, i) ==
    [position |-> Triple(mesh.positions, i),
     color |-> ZeroTriple,
     normal |-> IF mesh.normals = << >> THEN ZeroTriple ELSE Triple(mesh.normals, i)]

\* (0..positions.len() / 3).map(...).collect()
Vertices(mesh) ==
    [j \in 1..(Len(mesh.positions) \div 3) |-> ModelVertex(mesh, j - 1)]

\* a load that takes the number of vertices for the number of indices
ModelLoadCountsVertices(file_name, models) ==
    [name |-> file_name,
     vertex_buffer |-> Vertices(models[1].mesh),
     index_buffer |-> models[1].mesh.indices,
     num_indices |-> Len(Vertices(models[1].mesh))]

\* Model::load once the file is parsed into `models` (not empty): the first
\* model's mesh becomes the vertex and index buffers
ModelLoad(file_name, models) ==
    [name |-> file_name,
     vertex_buffer |-> Vertices(models[1].mesh),
     index_buffer |-> models[1].mesh.indices,
     num_indices |-> Len(models[1].mesh.indices)]

\* DrawModel::draw_model: the range of indices of draw_indexed
DrawModel(model) == << 0, model.num_indices >>

\* flat arrays of n triples over the coordinates 1 and 2
FlatArrays(n) == [1..(3 * n) -> {1, 2}]

\* the normals a parsed mesh has: none, or one triple for each position
NormalsFor(positions) ==
    {<< >>, [i \in 1..Len(positions) |-> positions[i] + 10]}

\* index arrays: no triangle, or one triangle over the n vertices
IndicesFor(n) == {<< >>} \cup [1..3 -> 0..(n - 1)]

\* the meshes the parser yields (triangulated, one index per vertex)
Meshes ==
    UNION {UNION {[positions : {positions}, normals : NormalsFor(positions),
                   indices : IndicesFor(n)] :
                     positions \in FlatArrays(n)} : n \in 0..MaxVertices}

\* a second model of the file, which Model::load warns about and ignores
OtherModel == [mesh |-> [positions |-> << 2, 2, 2 >>, normals |-> << >>, indices |-> << 0, 0, 0 >>]]

InitLoad ==
    /\ status = "Uninitialized"
    /\ \E mesh \in Meshes, rest \in {<< >>, << OtherModel >>} :
            state = [models |-> << [mesh |-> mesh] >> \o rest, model |-> None, drawn |-> None]
    /\ last_draw = None
    /\ now = 0
    /\ redraw_requested = FALSE
    /\ trace = << >>

\* Model::load("teapot.obj", &device)
Load ==
    /\ ~IsSome(state.model)
    /\ state' = [state EXCEPT !.model = Some(ModelLoad("teapot.obj", state.models))]
    /\ trace' = << <<"Model::load", "Ok">> >>
    /\ UNCHANGED << status, last_draw, now, redraw_requested >>

\* render_pass.draw_model(&self.model)
Draw ==
    /\ IsSome(state.model)
    /\ state' = [state EXCEPT !.drawn = Some(DrawModel(Unwrap(state.model)))]
    /\ trace' = << <<"draw_model">>, <<"set_vertex_buffer">>, <<"set_index_buffer">>,
                   <<"draw_indexed">> >>
    /\ UNCHANGED << status, last_draw, now, redraw_requested >>

NextLoad == Load \/ Draw

SpecLoad == InitLoad /\ [][NextLoad]_vars

\* ----------------------------------------------------------------- claims

Running == status = "Running"

\* the last handler presented a frame
Presented == \E i \in DOMAIN trace : trace[i] = <<"present">>

\* the last handler was WindowEvent::Resized and State::resize accepted the size
ResizeAccepted == Len(trace) > 1 /\ trace[1] = <<"Resized">>

\* a step that handles WindowEvent::Resized(size)
ResizedTo(size) == Running /\ status' = "Running" /\ Resized(size)

\* the three render targets of a State
Targets(st) == {st.depth_texture, st.normal_texture, st.color_texture}

\* C1: in every state of a running program the controller's pitch lies in
\* [-PitchLimit, PitchLimit], whatever pointer events were handled.
PitchWithinLimit ==
    Running => /\ state.camera_controller.pitch >= -PitchLimit
               /\ state.camera_controller.pitch <= PitchLimit

\* a pointer event took the pitch to the limit
PitchAtLimit ==
    /\ Running
    /\ trace[1] = <<"CursorMoved">>
    /\ state.camera_controller.pitch = PitchLimit

\* C2: after any sequence of resizes the depth, normal and color textures all
\* have the width and height of the current surface configuration.
TargetsMatchConfig ==
    Running => \A t \in Targets(state) :
                   /\ t.width = state.config[1]
                   /\ t.height = state.config[2]

\* an accepted resize from 800x600 to 1920x1080 has rebuilt the targets
TargetsResized ==
    /\ Running
    /\ ResizeAccepted
    /\ state.config = <<1920, 1080>>
    /\ \A t \in Targets(state) : t.width = 1920 /\ t.height = 1080

\* C3: after an accepted resize the G-buffer bind group refers to the normal
\* and color textures that the resize created.
BindGroupRefersToNewTextures ==
    (Running /\ ResizeAccepted) =>
        /\ state.gbuf_bind_group.normal = state.normal_texture.id
        /\ state.gbuf_bind_group.color = state.color_texture.id

\* a render pass of `pipeline` at position i of the trace
IsPass(i, pipeline) ==
    /\ Len(trace[i]) = 4
    /\ trace[i][1] = "render_pass"
    /\ trace[i][2] = pipeline

\* C4: a tick that presents a frame has applied the controller, uploaded the
\* uniform, run the Geometry Pass into the G-buffer targets, run the Lighting
\* Pass into the frame and presented, in this order.
TickRunsBothPasses ==
    (Running /\ Presented) =>
        \E a, b, c, d, e \in DOMAIN trace :
            /\ a < b /\ b < c /\ c < d /\ d < e
            /\ trace[a] = <<"update_camera">>
            /\ trace[b] = <<"write_buffer">>
            /\ IsPass(c, "gbuf_render_pipeline") /\ trace[c][3] = "gbuf"
            /\ IsPass(d, "lighting_render_pipeline") /\ trace[d][3] = "frame"
            /\ trace[e] = <<"present">>

\* C5: a resize to a size of width 0 or height 0 changes nothing of the State:
\* size, surface configuration, camera aspect, camera uniform and buffer and
\* the three textures are the ones it had before.
ZeroResizeIsNoOp ==
    [][\A size \in ZeroSizes : ResizedTo(size) => state' = state]_vars

\* a resize to a zero size was handled: no GPU call follows the event
ZeroResizeHandled ==
    /\ Running
    /\ trace = << <<"Resized">> >>

\* C6: a frame is drawn with the uniform buffer holding the view-projection
\* matrix of the camera's current eye, rotation and aspect, the aspect being
\* that of the current size.
DrawUsesCurrentCamera ==
    (Running /\ Presented) =>
        /\ state.camera_buffer = BuildViewProjectionMatrix(state.camera)
        /\ state.camera_buffer.proj.aspect = Aspect(state.size[1], state.size[2])

\* a frame was drawn after the window was resized to 1920x1080, the pointer
\* turned the camera and a held key moved it
FrameDrawnAfterChanges ==
    /\ Running
    /\ Presented
    /\ state.size = <<1920, 1080>>
    /\ state.camera.rotation # FromAngleY(0)
    /\ state.camera.eye # CameraNew(0).eye

\* C7, first part: the camera's aspect is width / height of the current size
AspectOfSize ==
    Running => state.camera.aspect = Aspect(state.size[1], state.size[2])

\* C7, second part: a step between running states that changes the aspect is
\* the handling of a resize to a nonzero size
AspectChangedByResize ==
    (Running /\ status' = "Running" /\ state'.camera.aspect # state.camera.aspect) =>
        \E size \in Sizes : ResizedTo(size)

\* C7: in every running state the camera's aspect is width / height of the
\* current viewport size, and only an accepted resize changes it.
AspectFollowsResize == []AspectOfSize /\ [][AspectChangedByResize]_vars

\* an accepted resize has changed the aspect from 4:3 to 16:9
AspectChanged ==
    /\ Running
    /\ ResizeAccepted
    /\ state.size = <<1920, 1080>>
    /\ state.camera.aspect = Aspect(1920, 1080)
    /\ state.camera.aspect # Aspect(800, 600)

\* what State::resize to `size` does to the State
ResizeEffect(size) ==
    /\ state'.camera.aspect = Aspect(size[1], size[2])
    /\ state'.depth_texture.id # state.depth_texture.id
    /\ state'.normal_texture.id # state.normal_texture.id
    /\ state'.color_texture.id # state.color_texture.id
    /\ \A t \in Targets(state') : t.width = size[1] /\ t.height = size[2]
    /\ state'.camera.eye = state.camera.eye
    /\ state'.camera.rotation = state.camera.rotation
    /\ state'.camera_controller = state.camera_controller

\* C8: handling a resize to a nonzero size sets the camera's aspect to
\* width / height, replaces the three textures by new ones of the new size and
\* leaves the camera's eye and rotation and the controller's yaw, pitch and
\* flags as they were.
ResizeKeepsCamera ==
    [][\A size \in Sizes : ResizedTo(size) => ResizeEffect(size)]_vars

\* a window turned, moved and with a key held was resized to 400x300
MovedCameraResized ==
    /\ Running
    /\ ResizeAccepted
    /\ state.size = <<400, 300>>
    /\ state.camera.aspect = Aspect(400, 300)
    /\ state.camera.eye # CameraNew(0).eye
    /\ state.camera.rotation # FromAngleY(0)
    /\ state.camera_controller.is_forward_pressed
    /\ state.camera_controller.pitch = PitchLimit

\* none of the six movement flags is set
NoFlags(cc) ==
    ~(\/ cc.is_forward_pressed \/ cc.is_backward_pressed
      \/ cc.is_left_pressed \/ cc.is_right_pressed
      \/ cc.is_up_pressed \/ cc.is_down_pressed)

\* C9: with none of the six movement flags set, update_camera leaves the eye
\* where it was, for every delta time and every yaw and pitch.
NoFlagsKeepEye ==
    [][(ApplyUpdate /\ NoFlags(state.camera_controller)) =>
            state'.camera.eye = state.camera.eye]_vars

\* update_camera ran with a positive delta time, no flag set, and a yaw and a
\* pitch that turned the camera
UpdatedWithNoFlags ==
    /\ trace # << >>
    /\ trace[1] = <<"update", "dt > 0">>
    /\ NoFlags(state.camera_controller)
    /\ state.camera_controller.yaw = 700000
    /\ state.camera_controller.pitch = -PitchLimit
    /\ state.camera.rotation = QMul(FromAngleX(-PitchLimit), FromAngleY(700000))

\* the controller with the flags of every opposite pair that is held cleared
WithoutPairs(cc) ==
    [cc EXCEPT
        !.is_forward_pressed = cc.is_forward_pressed /\ ~cc.is_backward_pressed,
        !.is_backward_pressed = cc.is_backward_pressed /\ ~cc.is_forward_pressed,
        !.is_left_pressed = cc.is_left_pressed /\ ~cc.is_right_pressed,
        !.is_right_pressed = cc.is_right_pressed /\ ~cc.is_left_pressed,
        !.is_up_pressed = cc.is_up_pressed /\ ~cc.is_down_pressed,
        !.is_down_pressed = cc.is_down_pressed /\ ~cc.is_up_pressed]

\* C10: an opposite pair held together contributes nothing: update_camera
\* moves the eye as it does with the pairs released, so it leaves the eye
\* unchanged when only pairs are held and moves it as a single key does when a
\* single key is held with them.
OppositePairsCancel ==
    [][ApplyUpdate =>
        /\ state'.camera.eye =
              UpdateCamera(WithoutPairs(state.camera_controller), state.camera, DeltaTime).eye
        /\ NoFlags(WithoutPairs(state.camera_controller)) =>
              state'.camera.eye = state.camera.eye]_vars

\* update_camera ran with a positive delta time while forward, backward and
\* left were held, and moved the eye
UpdatedWithPairAndKey ==
    /\ trace # << >>
    /\ trace[1] = <<"update", "dt > 0">>
    /\ state.camera_controller.is_forward_pressed
    /\ state.camera_controller.is_backward_pressed
    /\ state.camera_controller.is_left_pressed
    /\ ~state.camera_controller.is_right_pressed
    /\ ~state.camera_controller.is_up_pressed
    /\ ~state.camera_controller.is_down_pressed
    /\ state.camera.eye # CameraNew(0).eye

\* a and b differ by at most tol in every component
Near(a, b, tol) ==
    /\ Abs(a.x - b.x) <= tol
    /\ Abs(a.y - b.y) <= tol
    /\ Abs(a.z - b.z) <= tol

\* the direction the camera looks in (-Z of the view space), projected onto the
\* horizontal plane
CameraForward(camera) ==
    Normalize(Horizontal(Rotate(Conjugate(camera.rotation), VNeg(UnitZ))))

\* forward is held, no other horizontal key, and up and down are both held or
\* both released
ForwardOnly(cc) ==
    /\ cc.is_forward_pressed /\ ~cc.is_backward_pressed
    /\ ~cc.is_left_pressed /\ ~cc.is_right_pressed
    /\ cc.is_up_pressed = cc.is_down_pressed

\* the fixed-point rounding of a displacement over delta time dt: the unit
\* direction is normalized twice at low pitch resolution (within 4/Scale per
\* component), scaled by speed * dt, and the product is rounded once
Tolerance(speed, dt) == 4 * ((speed * dt) \div 1000) + 1

Length(d) == 16 * Magnitude(VTimes(d, 1, 16))

\* the rounding of Length on top of that of the displacement
LengthTolerance(speed, dt) == Tolerance(speed, dt) + 2 * 16

\* C12: whenever the directions of the held keys sum to a nonzero vector (one
\* key, a diagonal, three axes), update_camera displaces the eye by a vector
\* of length speed * dt.
DisplacementHasLengthSpeedDt ==
    [][(ApplyUpdate /\ Magnitude(Movement(state.camera_controller, state.camera)) > 0) =>
          Abs(Length(VSub(state'.camera.eye, state.camera.eye))
              - (state.camera_controller.speed * DeltaTime * Scale) \div 1000)
            <= LengthTolerance(state.camera_controller.speed, DeltaTime)]_vars

\* update_camera ran for a positive delta time with forward, right and up held
\* and moved the eye on all three axes
MovedDiagonally ==
    /\ trace # << >>
    /\ trace[1] = <<"update", "dt > 0">>
    /\ state.camera_controller.is_forward_pressed
    /\ ~state.camera_controller.is_backward_pressed
    /\ state.camera_controller.is_right_pressed
    /\ ~state.camera_controller.is_left_pressed
    /\ state.camera_controller.is_up_pressed
    /\ ~state.camera_controller.is_down_pressed
    /\ state.camera.eye.x # 0
    /\ state.camera.eye.y > Scale
    /\ state.camera.eye.z # 2 * Scale

\* a step that handles WindowEvent::RedrawRequested with State::render taking
\* the arm `arm`: handlers take no time, and the trace names the arm
RedrawStep(arm) ==
    /\ Running
    /\ now' = now
    /\ Len(trace') > 0
    /\ trace'[1] = <<"RedrawRequested", arm>>

\* the handler whose trace is `ops` made the call `op`
Called(ops, op) == \E i \in DOMAIN ops : ops[i] = op

\* C13: a tick whose frame acquisition fails with Lost or Outdated leaves the
\* driver running without requesting exit, configures the surface and
\* recreates the three textures at the size the State has, and keeps the size
\* and the camera's aspect.
LostSurfaceIsRebuilt ==
    [][RedrawStep("Err(Lost | Outdated)") =>
        /\ status' = "Running"
        /\ ~Called(trace', <<"exit">>)
        /\ Called(trace', <<"configure">>)
        /\ state'.size = state.size
        /\ state'.config = state.size
        /\ state'.surface = state.size
        /\ state'.camera.aspect = state.camera.aspect
        /\ \A t \in Targets(state') : t.width = state.size[1] /\ t.height = state.size[2]
        /\ state'.depth_texture.id # state.depth_texture.id
        /\ state'.normal_texture.id # state.normal_texture.id
        /\ state'.color_texture.id # state.color_texture.id
       ]_vars

\* a surface of 1920x1080 was lost and rebuilt at 1920x1080
LostSurfaceRebuilt ==
    /\ Running
    /\ Len(trace) > 0
    /\ trace[1] = <<"RedrawRequested", "Err(Lost | Outdated)">>
    /\ state.size = <<1920, 1080>>
    /\ state.surface = <<1920, 1080>>
    /\ \A t \in Targets(state) : t.width = 1920 /\ t.height = 1080

\* the handler whose trace is `ops` recorded a render pass
RenderPassIn(ops) == \E i \in DOMAIN ops : ops[i][1] = "render_pass"

\* C14: a tick whose frame acquisition fails with OutOfMemory or Other requests
\* exit in its own handler and takes the driver to Exiting; it presents no
\* frame and does not try again (no reconfiguration, no render pass), and
\* nothing is handled after it.
FatalErrorExits ==
    [][/\ RedrawStep("Err(OutOfMemory | Other)") =>
            /\ status' = "Exiting"
            /\ Called(trace', <<"exit">>)
            /\ ~Called(trace', <<"present">>)
            /\ ~Called(trace', <<"configure">>)
            /\ ~RenderPassIn(trace')
       /\ status = "Exiting" => UNCHANGED vars
      ]_vars

\* the driver is exiting after a fatal surface error
ExitedOnFatalError ==
    /\ status = "Exiting"
    /\ trace[1] = <<"RedrawRequested", "Err(OutOfMemory | Other)">>
    /\ trace[Len(trace)] = <<"exit">>

\* the size, the surface and its configuration and the three textures of the
\* State are left as they were
SurfaceUnchanged ==
    /\ state'.size = state.size
    /\ state'.config = state.config
    /\ state'.surface = state.surface
    /\ state'.depth_texture = state.depth_texture
    /\ state'.normal_texture = state.normal_texture
    /\ state'.color_texture = state.color_texture
    /\ state'.gbuf_bind_group = state.gbuf_bind_group

\* C15 as stated: a tick whose frame acquisition times out leaves the driver
\* running, presents nothing and changes nothing: size, surface configuration,
\* textures and camera are as before the tick.
TimeoutChangesNothing ==
    [][RedrawStep("Err(Timeout)") =>
        /\ status' = "Running"
        /\ ~Called(trace', <<"present">>)
        /\ SurfaceUnchanged
        /\ state'.camera = state.camera
      ]_vars

\* C15: a tick whose frame acquisition times out leaves the driver running,
\* records no pass and presents nothing, and leaves size, surface
\* configuration, textures and controller as they were; the camera is the one
\* State::update left, which ran before the acquisition, and the uniform
\* buffer holds its matrix.
TimeoutDropsFrame ==
    [][RedrawStep("Err(Timeout)") =>
        /\ status' = "Running"
        /\ ~Called(trace', <<"present">>)
        /\ ~RenderPassIn(trace')
        /\ ~Called(trace', <<"exit">>)
        /\ SurfaceUnchanged
        /\ state'.camera_controller = state.camera_controller
        /\ state'.camera = UpdateCamera(state.camera_controller, state.camera, DeltaTime)
        /\ state'.camera_buffer = BuildViewProjectionMatrix(state'.camera)
      ]_vars

\* a frame was dropped on a timeout in a tick that moved and turned the camera
FrameDroppedCameraMoved ==
    /\ Running
    /\ trace[1] = <<"RedrawRequested", "Err(Timeout)">>
    /\ state.camera.eye # CameraNew(0).eye
    /\ state.camera.rotation # FromAngleY(0)

\* a step that takes the driver from Running to Exiting
LeavesRunning == Running /\ status' = "Exiting"

\* the step handles a close request or a fatal surface error
ClosedOrFatal ==
    \/ CloseRequested
    \/ \E err \in {"OutOfMemory", "Other"} : RedrawFatal(err)

\* the step handles a key event of the Escape key, pressed or released
EscapeKey ==
    \E event \in KeyEvents : event.physical_key = "Escape" /\ KeyboardInput(event)

\* C16 as stated: the driver leaves Running for Exiting only in the handling
\* of a close request or of a fatal surface error; no keyboard or pointer
\* event ends the loop.
ExitsOnlyOnCloseOrFatal == [][LeavesRunning => ClosedOrFatal]_vars

\* C16: the driver leaves Running for Exiting only in the handling of a close
\* request, of a fatal surface error, or of a key event of the Escape key; no
\* other key and no pointer event ends the loop.
ExitsOnlyOnCloseFatalOrEscape == [][LeavesRunning => (ClosedOrFatal \/ EscapeKey)]_vars

\* the driver is exiting after a key event of the Escape key
ExitedOnEscape ==
    /\ status = "Exiting"
    /\ trace = << <<"KeyboardInput", "Escape">>, <<"exit">> >>

\* a step that handles WindowEvent::RedrawRequested and leaves the driver running
Redrawn ==
    /\ Running
    /\ status' = "Running"
    /\ now' = now
    /\ Len(trace') > 0
    /\ trace'[1][1] = "RedrawRequested"

\* C17: the first tick after the driver starts running applies the controller
\* with delta time 0 and does not move the eye, whatever keys are held; every
\* later tick applies it with the time elapsed since the previous tick, which
\* is not negative, whether that tick presented a frame or not: every tick
\* records its time.
FirstTickHasZeroDeltaTime ==
    [][Redrawn =>
        /\ last_draw' = Some(now)
        /\ ~IsSome(last_draw) =>
              /\ state'.camera.eye = state.camera.eye
              /\ state'.camera = UpdateCamera(state.camera_controller, state.camera, 0)
        /\ IsSome(last_draw) =>
              /\ now - Unwrap(last_draw) >= 0
              /\ state'.camera =
                    UpdateCamera(state.camera_controller, state.camera,
                                 (now - Unwrap(last_draw)) * StepMs)
      ]_vars

\* the first tick ran one clock step after the start with forward held, and
\* the eye is where Camera::new put it
FirstTickWithKeyHeld ==
    /\ Running
    /\ Called(trace, <<"delta_time", "None">>)
    /\ now = 1
    /\ last_draw = Some(1)
    /\ state.camera_controller.is_forward_pressed
    /\ state.camera.eye = CameraNew(0).eye

\* the flag of the controller each mapped key sets
FlagOf(keycode) ==
    CASE keycode \in {"KeyW", "ArrowUp"} -> "is_forward_pressed"
      [] keycode \in {"KeyS", "ArrowDown"} -> "is_backward_pressed"
      [] keycode \in {"KeyA", "ArrowLeft"} -> "is_left_pressed"
      [] keycode \in {"KeyD", "ArrowRight"} -> "is_right_pressed"
      [] keycode = "Space" -> "is_up_pressed"
      [] keycode = "ShiftLeft" -> "is_down_pressed"
      [] OTHER -> "none"

\* a key event of a key that is mapped to a movement flag
MappedKeyEvent(event) ==
    event.type = "KeyboardInput" /\ FlagOf(event.physical_key) # "none"

\* what handle_event does with `event` in a step from state to state'
HandleEventEffect(event) ==
    /\ trace'[1][2] = Bool(MappedKeyEvent(event) \/ event.type = "CursorMoved")
    /\ MappedKeyEvent(event) =>
          state'.camera_controller =
              [state.camera_controller EXCEPT
                  ![FlagOf(event.physical_key)] = (event.state = "Pressed")]
    /\ trace'[1][2] = "false" => state'.camera_controller = state.camera_controller

\* C18: CameraController::handle_event returns true exactly for a key event,
\* pressed or released, of a mapped movement key and for a pointer event; a key
\* event of a mapped key sets the flag of the key to (state = Pressed) and
\* changes nothing else; an event for which it returns false changes nothing.
HandleEventConsumesMappedKeys ==
    [][\A event \in HandledEvents : Handle(event) => HandleEventEffect(event)]_vars

\* handle_event returned true for the release of a key whose flag was set, and
\* the flag is cleared while another stays set
MappedKeyReleased ==
    /\ trace = << <<"handle_event", "true">> >>
    /\ ~state.camera_controller.is_forward_pressed
    /\ state.camera_controller.is_left_pressed
    /\ state.camera_controller.pitch = PitchLimit

\* pointer events as the driver delivers them to a State of size `size`
CursorEventsAt(size) ==
    [type : {"CursorMoved"},
     position : {<<size[1] \div 2 + offset[1], size[2] \div 2 + offset[2]>> :
                    offset \in PointerOffsets}]

\* the controller is the one the State had, or the one an input event made of it
ControllerKept ==
    \/ state'.camera_controller = state.camera_controller
    \/ \E event \in KeyEvents \cup CursorEventsAt(state.size) :
          state'.camera_controller =
              HandleEvent(state.camera_controller, event, state.size).controller

\* the eye and the rotation are the ones the camera had, or the ones
\* update_camera made of them
CameraKept ==
    \/ /\ state'.camera.eye = state.camera.eye
       /\ state'.camera.rotation = state.camera.rotation
    \/ /\ state'.camera.eye =
              UpdateCamera(state.camera_controller, state.camera, DeltaTime).eye
       /\ state'.camera.rotation =
              UpdateCamera(state.camera_controller, state.camera, DeltaTime).rotation

\* C19: once the driver is running, the camera and the controller are the
\* ones constructed when it started: every step, a further activation
\* included, leaves eye, rotation, yaw, pitch and flags as they were or as
\* update_camera and handle_event make them, and never puts back the defaults.
CameraAndControllerPersist ==
    [][(Running /\ status' = "Running") => (ControllerKept /\ CameraKept)]_vars

\* the last handler tried to load the mesh and failed
LoadFailed(ops) == \E i \in DOMAIN ops : ops[i][1] = "Model::load"

\* C20: when loading the mesh fails at start-up the driver does not start
\* running: resumed panics without installing a State or requesting a redraw,
\* and after it nothing is handled, so no frame is rendered and no event
\* reaches a State.
LoadFailureNeverRuns ==
    [][/\ LoadFailed(trace') =>
            /\ status' = "Panicked"
            /\ state' = NoState
            /\ ~redraw_requested'
            /\ ~Called(trace', <<"present">>)
       /\ status = "Panicked" => UNCHANGED vars
      ]_vars

\* start-up ended in a panic because the mesh file could not be read
PanickedOnLoad ==
    /\ status = "Panicked"
    /\ trace[3] = <<"Model::load", "Err">>
    /\ trace[Len(trace)] = <<"panic">>

\* vertex j (from 1) of the loaded model is built from triple j of the mesh
VertexMatches(vertex, mesh, j) ==
    /\ vertex.position =
          << mesh.positions[3 * j - 2], mesh.positions[3 * j - 1], mesh.positions[3 * j] >>
    /\ vertex.color = << 0, 0, 0 >>
    /\ vertex.normal =
          IF Len(mesh.normals) = 0 THEN << 0, 0, 0 >>
          ELSE << mesh.normals[3 * j - 2], mesh.normals[3 * j - 1], mesh.normals[3 * j] >>

\* the loaded model is the one C21 describes for the first mesh of the file
ModelMatches(model, mesh) ==
    /\ Len(model.vertex_buffer) * 3 = Len(mesh.positions)
    /\ \A j \in DOMAIN model.vertex_buffer : VertexMatches(model.vertex_buffer[j], mesh, j)
    /\ model.index_buffer = mesh.indices
    /\ model.num_indices = Len(model.index_buffer)

\* C21: Model::load builds one vertex for each position triple, with the zero
\* normal when the mesh has no normals and normal triple i for vertex i
\* otherwise, and color (0, 0, 0); num_indices is the number of indices of the
\* index buffer, and draw_model draws the indices 0..num_indices: all of them.
LoadedModelMatchesMesh ==
    /\ IsSome(state.model) => ModelMatches(Unwrap(state.model), state.models[1].mesh)
    /\ IsSome(state.drawn) =>
          Unwrap(state.drawn) = << 0, Len(Unwrap(state.model).index_buffer) >>

\* a mesh of two vertices and one triangle, without normals, was loaded and drawn
MeshWithoutNormalsDrawn ==
    /\ IsSome(state.drawn)
    /\ Len(state.models[1].mesh.positions) = 6
    /\ state.models[1].mesh.normals = << >>
    /\ Len(Unwrap(state.model).vertex_buffer) = 2
    /\ Unwrap(state.model).vertex_buffer[2].normal = << 0, 0, 0 >>
    /\ Unwrap(state.drawn) = << 0, 3 >>

\* the squared norm of a quaternion, Scale * Scale for a unit quaternion
NormSquared(q) == q.s * q.s + q.v.x * q.v.x + q.v.y * q.v.y + q.v.z * q.v.z

\* the squared norm of a quaternion whose four components are each rounded to
\* 1 / Scale differs from that of the exact one by less than this
NormTolerance == 4 * Scale

PointerDelta(x, w) == ((2 * x - w) * 1000) \div 2

\* a pitch kept within the limit of 75 degrees
Clamped(pitch) ==
    IF pitch > PitchLimit THEN PitchLimit
    ELSE IF pitch < -PitchLimit THEN -PitchLimit ELSE pitch

\* the pointer event at the given offset from the center of the viewport moves
\* yaw and pitch by the offset from the center of the last accepted size
PointerEffect(offset) ==
    LET cc == state.camera_controller
        x == state.size[1] \div 2 + offset[1]
        y == state.size[2] \div 2 + offset[2]
    IN  /\ state'.camera_controller =
              [cc EXCEPT !.yaw = cc.yaw + PointerDelta(x, state.size[1]),
                         !.pitch = Clamped(cc.pitch + PointerDelta(y, state.size[2]))]
        /\ offset = << 0, 0 >> => /\ state'.camera_controller.yaw = cc.yaw
                                  /\ state'.camera_controller.pitch = cc.pitch
        /\ state'.camera = state.camera
        /\ state'.size = state.size

\* C23: a pointer event at (x, y) adds (x - w/2) * 0.001 to yaw and
\* (y - h/2) * 0.001 to pitch, which is then clamped, (w, h) being the last
\* accepted viewport size; an event at the center leaves yaw and pitch as they
\* were; a pointer event changes neither the key flags nor the camera.
PointerMovesYawAndPitch ==
    [][\A offset \in PointerOffsets :
          (status' = "Running" /\ Running /\ CursorMoved(offset)) => PointerEffect(offset)]_vars

\* after a resize to 1920 x 1080 and a refused resize, the pointer moved the
\* camera controller right and down, while the forward key was held
PointerMovedAfterResize ==
    /\ Running
    /\ trace = << <<"CursorMoved">>, <<"set_cursor_position">>, <<"handle_event">> >>
    /\ state.size = << 1920, 1080 >>
    /\ state.camera_controller.yaw = 400000
    /\ state.camera_controller.pitch = PitchLimit
    /\ state.camera_controller.is_forward_pressed

\* the rotation by yaw about Y followed by the rotation by pitch about X:
\* (cp * cy, (sp * cy, cp * sy, sp * sy)) with the sines and cosines of the
\* half angles
PitchAfterYaw(yaw, pitch) ==
    LET cy == Cos(yaw \div 2)
        sy == Sin(yaw \div 2)
        cp == Cos(pitch \div 2)
        sp == Sin(pitch \div 2)
    IN  [s |-> Mul(cp, cy), v |-> [x |-> Mul(sp, cy), y |-> Mul(cp, sy), z |-> Mul(sp, sy)]]

\* the last step was an update
Updated == trace # << >> /\ trace[1][1] = "update"

\* C24: after update_camera the orientation is the pitch rotation composed
\* after the yaw rotation, whatever the orientation before, the delta time and
\* the key flags; an update that follows an update leaves it as it is.
OrientationIsOfYawAndPitch ==
    [][ApplyUpdate =>
          /\ state'.camera.rotation =
                PitchAfterYaw(state.camera_controller.yaw, state.camera_controller.pitch)
          /\ Updated => state'.camera.rotation = state.camera.rotation]_vars

\* an update ran at time 2 with the forward key held, for a yaw and a pitch
\* that are not those of any orientation the camera starts with
UpdatedTurned ==
    /\ Updated
    /\ trace[1] = <<"update", "dt > 0">>
    /\ last_draw = Some(2)
    /\ state.camera_controller.yaw = -400000
    /\ state.camera_controller.pitch = 300000
    /\ state.camera_controller.is_forward_pressed
    /\ state.camera.rotation = PitchAfterYaw(-400000, 300000)
    /\ state.camera.rotation.v.z < 0

\* the delta times of an update, in ms
DeltaTimes == {dt * StepMs : dt \in 0..MaxApplyClock}

\* the camera has the orientation of the controller's yaw and pitch
OrientationApplied(st) ==
    st.camera.rotation = PitchAfterYaw(st.camera_controller.yaw, st.camera_controller.pitch)

\* C25: with the flags, yaw and pitch constant and the orientation already
\* applied, an update over dt1 followed by an update over dt2 takes the eye
\* where a single update over dt1 + dt2 takes it.
MovementIsFrameRateIndependent ==
    [][(ApplyUpdate /\ OrientationApplied(state)) =>
          \A dt2 \in DeltaTimes :
              UpdateCamera(state'.camera_controller, state'.camera, dt2).eye =
                  UpdateCamera(state.camera_controller, state.camera, DeltaTime + dt2).eye]_vars

\* forward was held for 2 s with the camera looking along -Z, in one update or
\* in two: the eye is 10 units from where it started, at (0, 1, -8)
MovedTenUnitsInTwoSeconds ==
    /\ Updated
    /\ last_draw = Some(2)
    /\ ForwardOnly(state.camera_controller)
    /\ ~state.camera_controller.is_up_pressed
    /\ OrientationApplied(state)
    /\ state.camera_controller.yaw = 0
    /\ state.camera_controller.pitch = 0
    /\ state.camera.eye = Vec(0, Scale, -8 * Scale)

\* the six movement flags
Flags == {"is_forward_pressed", "is_backward_pressed", "is_left_pressed",
          "is_right_pressed", "is_up_pressed", "is_down_pressed"}

\* the positions in the log of the events of the keys in `keys`
EventsOf(keys) == {i \in DOMAIN trace : trace[i][2] \in keys}

\* the most recent of the positions `idx`
Latest(idx) == CHOOSE i \in idx : \A j \in idx : j <= i

\* the key is held: its most recent event in the log is a press
Held(keycode) ==
    /\ EventsOf({keycode}) # {}
    /\ trace[Latest(EventsOf({keycode}))][3] = "Pressed"

\* the keys mapped to a flag
KeysOf(flag) == {keycode \in MovementKeys : FlagOf(keycode) = flag}

\* C26: each movement flag holds the pressed/released state of the most
\* recent key event among the keys mapped to it (and FALSE before any), so
\* that the release of one alias clears the flag although the other alias is
\* still held.
FlagsFollowLastKeyEvent ==
    \A flag \in Flags :
        /\ state.camera_controller[flag] =
              IF EventsOf(KeysOf(flag)) = {} THEN FALSE
              ELSE trace[Latest(EventsOf(KeysOf(flag)))][3] = "Pressed"
        /\ \A keycode \in KeysOf(flag) :
              (trace # << >> /\ trace[Len(trace)] = <<"KeyboardInput", keycode, "Released">>)
                  => ~state.camera_controller[flag]

\* W and ArrowUp were pressed and W was released: ArrowUp is still held and the
\* forward flag is clear
AliasReleasedWhileOtherHeld ==
    /\ trace = << <<"KeyboardInput", "KeyW", "Pressed">>,
                  <<"KeyboardInput", "ArrowUp", "Pressed">>,
                  <<"KeyboardInput", "KeyW", "Released">> >>
    /\ Held("ArrowUp")
    /\ ~Held("KeyW")
    /\ ~state.camera_controller.is_forward_pressed

\* the last handler was the RedrawRequested arm
Ticked == trace # << >> /\ trace[1][1] = "RedrawRequested"

\* the first call of the handler whose trace is `ops` to one of `names`
FirstCall(ops, names) ==
    IF \E i \in DOMAIN ops : ops[i][1] \in names
    THEN CHOOSE i \in DOMAIN ops :
            /\ ops[i][1] \in names
            /\ \A j \in DOMAIN ops : ops[j][1] \in names => i <= j
    ELSE Len(ops) + 1

\* the RedrawRequested arm asks for the next redraw before it updates, renders
\* or rebuilds anything
RequestsRedrawFirst ==
    Ticked =>
        FirstCall(trace, {"request_redraw"}) <
            FirstCall(trace, {"update_camera", "write_buffer", "render_pass", "submit",
                              "present", "configure", "create_texture", "exit"})

\* time has passed since the last tick of the running driver, or there was none
Stale == Running /\ (IsSome(last_draw) => Unwrap(last_draw) < now)

\* C27: while Running the frame loop does not stall: a redraw is always
\* requested, every handled redraw has asked for the next one before it
\* updates or renders, whatever the frame's outcome, and resize handling
\* neither renders nor presents; so, when requested redraws are delivered,
\* whenever time has passed since the last tick another tick occurs or the
\* driver stops running.
FrameLoopNeverStalls ==
    /\ [](Running => redraw_requested)
    /\ []RequestsRedrawFirst
    /\ []((trace # << >> /\ trace[1] = <<"Resized">>) =>
              (~RenderPassIn(trace) /\ ~Called(trace, <<"present">>)
                  /\ ~Called(trace, <<"submit">>)))
    /\ Stale ~> (~Running \/ (Ticked /\ last_draw = Some(now)))

\* a tick whose frame timed out, at time 1 after an earlier tick: the next
\* redraw is requested
TimedOutTickRequestedNext ==
    /\ Running
    /\ trace # << >>
    /\ trace[1] = <<"RedrawRequested", "Err(Timeout)">>
    /\ trace[2] = <<"request_redraw">>
    /\ last_draw = Some(1)
    /\ now = 1
    /\ redraw_requested
====
